---- MODULE Spec2Model ----
(***************************************************************************)
(* Barber Shop Morocco API (src/main.py): the booking pipeline             *)
(* (create_booking, list_bookings, _serialize_doc) and the diagnostics     *)
(* endpoint (test_database), over a document store whose adapter           *)
(* (database.create_document / get_documents) and canonical schema         *)
(* (schemas.Booking) are modelled from the specification.                  *)
(*                                                                         *)
(* Python strings are sequences of character codes, so that "" is <<>>,    *)
(* str comparison is lexicographic comparison and a length is a Len.       *)
(* Python values are tagged records: Str, Null (None), Datetime, ObjectId. *)
(* A document (dict) is a function from field names to values.             *)
(***************************************************************************)
EXTENDS Integers, Sequences, FiniteSets, TLC

VARIABLES
    collection,   \* the "booking" collection, in the store's natural order
    nextId,       \* the store's next fresh identifier
    now,          \* the server clock, in ms after 2024-01-01T00:00:00
    store,        \* condition of the store module / db handle
    env,          \* which of DATABASE_URL, DATABASE_NAME are set
    db,           \* the database behind the handle: its collections, its name
    req,          \* the request last handled
    resp,         \* the response (or HTTPException) it produced
    created,      \* history: what every successful create_booking returned
    doc,          \* input of a stand-alone _serialize_doc call
    out,          \* its output
    pc,           \* concurrent handlers: position of each request
    local         \* concurrent handlers: local variables of each request

vars == <<collection, nextId, now, store, env, db, req, resp, created,
          doc, out, pc, local>>

-----------------------------------------------------------------------------
(* Bounds of the model *)

MaxCreates == 2
MaxCollections == 12
NumRequests == 3

(* Program constants *)

ListLimit == 200
CollectionsShown == 10
ErrChars == 50
ServerError == 500

-----------------------------------------------------------------------------
(* Values *)

Str(s) == [t |-> "str", s |-> s]
Null == [t |-> "null"]
Datetime(ms) == [t |-> "datetime", ms |-> ms]
ObjectId(n) == [t |-> "oid", n |-> n]

Min(a, b) == IF a < b THEN a ELSE b

S_ok == <<111, 107>>
S_Amine == <<65, 109, 105, 110, 101>>
S_Yasmine == <<89, 97, 115, 109, 105, 110, 101>>
S_phone == <<48, 54, 49, 50, 51, 52, 53, 54, 55, 56>>
S_cut == <<99, 117, 116>>
S_fade == <<102, 97, 100, 101>>
S_email == <<97, 64, 98, 46, 109, 97>>
S_date == <<50, 48, 50, 52, 45, 48, 54, 45, 48, 49>>
S_time == <<49, 48, 58, 51, 48>>
S_notes == <<115, 104, 111, 114, 116, 32, 102, 97, 100, 101>>

\* "2024-01-01T00:"
S_dateHour == <<50, 48, 50, 52, 45, 48, 49, 45, 48, 49, 84, 48, 48, 58>>

\* str(e) of the exceptions the handlers can catch
MsgNoModule ==
    <<78, 111, 32, 109, 111, 100, 117, 108, 101, 32, 110, 97, 109, 101, 100,
      32, 39, 100, 97, 116, 97, 98, 97, 115, 101, 39>>
MsgConnectionRefused ==
    <<99, 111, 110, 110, 101, 99, 116, 105, 111, 110, 32, 114, 101, 102, 117,
      115, 101, 100, 58, 32, 116, 104, 101, 32, 115, 101, 114, 118, 101, 114,
      32, 97, 116, 32, 100, 98, 46, 105, 110, 116, 101, 114, 110, 97, 108, 58,
      50, 55, 48, 49, 55, 32, 100, 105, 100, 32, 110, 111, 116, 32, 97, 110,
      115, 119, 101, 114, 32, 105, 110, 32, 116, 105, 109, 101>>
MsgNotAvailable ==
    <<68, 97, 116, 97, 98, 97, 115, 101, 32, 110, 111, 116, 32, 97, 118, 97,
      105, 108, 97, 98, 108, 101>>
MsgListFailed ==
    <<108, 105, 115, 116, 95, 99, 111, 108, 108, 101, 99, 116, 105, 111, 110,
      95, 110, 97, 109, 101, 115, 32, 102, 97, 105, 108, 101, 100, 58, 32, 116,
      104, 101, 32, 115, 101, 114, 118, 101, 114, 32, 97, 116, 32, 100, 98, 46,
      105, 110, 116, 101, 114, 110, 97, 108, 58, 50, 55, 48, 49, 55, 32, 116,
      105, 109, 101, 100, 32, 111, 117, 116>>
MsgWriteFailed == <<119, 114, 105, 116, 101, 32, 102, 97, 105, 108, 101, 100>>
MsgReadFailed == <<114, 101, 97, 100, 32, 102, 97, 105, 108, 101, 100>>
MsgInvalidName ==
    <<118, 97, 108, 105, 100, 97, 116, 105, 111, 110, 32, 101, 114, 114, 111,
      114, 58, 32, 110, 97, 109, 101>>
MsgInvalidPhone ==
    <<118, 97, 108, 105, 100, 97, 116, 105, 111, 110, 32, 101, 114, 114, 111,
      114, 58, 32, 112, 104, 111, 110, 101>>
MsgInvalidService ==
    <<118, 97, 108, 105, 100, 97, 116, 105, 111, 110, 32, 101, 114, 114, 111,
      114, 58, 32, 115, 101, 114, 118, 105, 99, 101>>

\* a raised exception, and a normal return
Raise(cls, msg) == [ok |-> FALSE, cls |-> cls, msg |-> msg]
Return(v) == [ok |-> TRUE, value |-> v]

-----------------------------------------------------------------------------
(* Conversions of the serialization layer *)

Digit(d) == 48 + d
TwoDigits(n) == <<Digit((n \div 10) % 10), Digit(n % 10)>>
SixDigits(n) ==
    <<Digit((n \div 100000) % 10), Digit((n \div 10000) % 10),
      Digit((n \div 1000) % 10), Digit((n \div 100) % 10),
      Digit((n \div 10) % 10), Digit(n % 10)>>

\* datetime.isoformat(): YYYY-MM-DDTHH:MM:SS, then .ffffff only when the
\* microsecond is not zero. The clock stays within one hour of its origin.
isoformat(ms) ==
    S_dateHour \o TwoDigits((ms \div 60000) % 60) \o <<58>>
               \o TwoDigits((ms \div 1000) % 60)
               \o (IF ms % 1000 = 0 THEN <<>>
                   ELSE <<46>> \o SixDigits((ms % 1000) * 1000))

HexDigit(d) == IF d < 10 THEN 48 + d ELSE 87 + d

\* str(ObjectId): 24 lowercase hexadecimal digits
strObjectId(n) ==
    [i \in 1..24 |->
        IF i <= 16 THEN HexDigit(0)
        ELSE HexDigit((n \div (16 ^ (24 - i))) % 16)]

\* str(v) of an identifier value
str(v) == IF v.t = "oid" THEN strObjectId(v.n) ELSE v.s

SerializedKeys(d) ==
    (DOMAIN d \ {"_id"}) \cup (IF "_id" \in DOMAIN d THEN {"id"} ELSE {})

\* faulty variant: the identifier is renamed but not stringified
_serialize_doc_raw_id(d) ==
    [k \in SerializedKeys(d) |->
        IF k = "id" /\ "_id" \in DOMAIN d THEN d["_id"]
        ELSE IF d[k].t = "datetime" THEN Str(isoformat(d[k].ms))
        ELSE d[k]]

\* faulty variant: timestamps pass through unconverted
_serialize_doc_no_isoformat(d) ==
    [k \in SerializedKeys(d) |->
        IF k = "id" /\ "_id" \in DOMAIN d THEN Str(str(d["_id"]))
        ELSE d[k]]

_serialize_doc(d) ==
    [k \in SerializedKeys(d) |->
        IF k = "id" /\ "_id" \in DOMAIN d THEN Str(str(d["_id"]))
        ELSE IF d[k].t = "datetime" THEN Str(isoformat(d[k].ms))
        ELSE d[k]]

-----------------------------------------------------------------------------
(* Intake payloads and the canonical schema *)

IntakeFields ==
    {"name", "phone", "email", "service", "preferred_date", "preferred_time",
     "notes"}

BookingIn(name, phone, email, service, preferred_date, preferred_time, notes) ==
    [name |-> name, phone |-> phone, email |-> email, service |-> service,
     preferred_date |-> preferred_date, preferred_time |-> preferred_time,
     notes |-> notes]

IntakeAmine == BookingIn(Str(S_Amine), Str(S_phone), Null, Str(S_cut), Null, Null, Null)
IntakeYasmine ==
    BookingIn(Str(S_Yasmine), Str(S_phone), Str(S_email), Str(S_fade),
              Str(S_date), Str(S_time), Str(S_notes))
IntakeNoName == BookingIn(Str(<<>>), Str(S_phone), Null, Str(S_cut), Null, Null, Null)
IntakeNoService ==
    BookingIn(Str(S_Yasmine), Str(S_phone), Str(S_email), Str(<<>>), Null, Null, Null)

Intakes == {IntakeAmine, IntakeYasmine, IntakeNoName, IntakeNoService}

\* schemas.Booking(**payload.model_dump()): the required canonical fields
\* must not be empty
BookingSchema(p) ==
    IF Len(p.name.s) = 0 THEN Raise("ValidationError", MsgInvalidName)
    ELSE IF Len(p.phone.s) = 0 THEN Raise("ValidationError", MsgInvalidPhone)
    ELSE IF Len(p.service.s) = 0 THEN Raise("ValidationError", MsgInvalidService)
    ELSE Return(p)

-----------------------------------------------------------------------------
(* The store adapter *)

StoreConditions == {"missing", "import_error", "db_none", "db_error", "ok"}

\* `from database import ...`
ImportDatabase(s) ==
    IF s = "missing" THEN Raise("ImportError", MsgNoModule)
    ELSE IF s = "import_error" THEN Raise("Exception", MsgConnectionRefused)
    ELSE Return(s)

\* the document create_document inserts: the canonical fields, the creation
\* timestamp and the identifier the store assigns
StoredBooking(id, booking, at) ==
    booking @@ ("_id" :> ObjectId(id)) @@ ("created_at" :> Datetime(at))

\* database.create_document("booking", booking) at time `at`
\* res is what the call returns or raises, coll the collection after it
create_document(s, coll, id, booking, at) ==
    IF s = "db_none"
    THEN [res |-> Raise("Exception", MsgNotAvailable), coll |-> coll]
    ELSE IF s = "db_error"
    THEN [res |-> Raise("Exception", MsgWriteFailed), coll |-> coll]
    ELSE [res |-> Return(strObjectId(id)),
          coll |-> Append(coll, StoredBooking(id, booking, at))]

\* database.get_documents("booking", {}, limit)
get_documents(s, coll, limit) ==
    IF s = "db_none" THEN Raise("Exception", MsgNotAvailable)
    ELSE IF s = "db_error" THEN Raise("Exception", MsgReadFailed)
    ELSE Return(SubSeq(coll, 1, Min(limit, Len(coll))))

-----------------------------------------------------------------------------
(* Sorting *)

RECURSIVE StrCmp(_, _, _)
\* comparison of two Python strings from position i on: -1, 0 or 1
StrCmp(a, b, i) ==
    IF i > Len(a) THEN (IF i > Len(b) THEN 0 ELSE -1)
    ELSE IF i > Len(b) THEN 1
    ELSE IF a[i] < b[i] THEN -1
    ELSE IF a[i] > b[i] THEN 1
    ELSE StrCmp(a, b, i + 1)

\* key=lambda x: x.get("created_at", "")
SortKey(x) == IF "created_at" \in DOMAIN x THEN x["created_at"].s ELSE <<>>

RECURSIVE LeadCount(_, _, _, _, _)
\* s is sorted by descending key: the number of its leading elements whose
\* key is greater than k (strict) or at least k, found by bisection of lo..hi
LeadCount(s, k, strict, lo, hi) ==
    IF lo = hi THEN lo
    ELSE LET mid == (lo + hi + 1) \div 2
             c == StrCmp(SortKey(s[mid]), k, 1)
         IN  IF c > 0 \/ (~strict /\ c = 0)
             THEN LeadCount(s, k, strict, mid, hi)
             ELSE LeadCount(s, k, strict, lo, mid - 1)

RECURSIVE MergeDesc(_, _)
\* the stable merge of two runs sorted by descending key: on equal keys the
\* elements of the left run come first
MergeDesc(a, b) ==
    IF a = <<>> THEN b
    ELSE IF b = <<>> THEN a
    ELSE LET m == (Len(a) + 1) \div 2
             c == LeadCount(b, SortKey(a[m]), TRUE, 0, Len(b))
         IN  MergeDesc(SubSeq(a, 1, m - 1), SubSeq(b, 1, c))
                 \o <<a[m]>>
                 \o MergeDesc(SubSeq(a, m + 1, Len(a)), SubSeq(b, c + 1, Len(b)))

\* faulty variant: the sort is left out
SortDesc_unsorted(items) == items

RECURSIVE SortDesc(_)
\* items.sort(key=..., reverse=True): a stable sort by descending key
SortDesc(items) ==
    IF Len(items) <= 1 THEN items
    ELSE LET h == Len(items) \div 2
         IN  MergeDesc(SortDesc(SubSeq(items, 1, h)),
                       SortDesc(SubSeq(items, h + 1, Len(items))))

-----------------------------------------------------------------------------
(* Responses *)

\* raise HTTPException(status_code=500, detail=str(e))
HTTPException(status_code, detail) ==
    [raised |-> "HTTPException", status_code |-> status_code,
     body |-> [detail |-> Str(detail)]]

\* a returned body, which the framework sends with status 200
Ok(body) == [raised |-> "none", status_code |-> 200, body |-> body]

NoResponse == [raised |-> "none", status_code |-> 0, body |-> <<>>]

-----------------------------------------------------------------------------
(* The handlers *)

\* faulty variant: the record is persisted before it is validated
CreateOutcome_insert_first(s, coll, id, payload, at) ==
    LET imp == ImportDatabase(s)
        booking == BookingSchema(payload)
        ins == create_document(s, coll, id, payload, at)
    IN  IF ~imp.ok THEN [res |-> imp, coll |-> coll]
        ELSE IF ~ins.res.ok THEN ins
        ELSE IF ~booking.ok THEN [res |-> booking, coll |-> ins.coll]
        ELSE ins

\* the body of create_booking's try block: res is what it returns or raises,
\* coll the collection it leaves
CreateOutcome(s, coll, id, payload, at) ==
    LET imp == ImportDatabase(s)
        booking == BookingSchema(payload)
    IN  IF ~imp.ok THEN [res |-> imp, coll |-> coll]
        ELSE IF ~booking.ok THEN [res |-> booking, coll |-> coll]
        ELSE create_document(s, coll, id, booking.value, at)

create_booking(payload, dt) ==
    /\ LET r == CreateOutcome(store, collection, nextId, payload, now + dt)
           inserted == Len(r.coll) - Len(collection)
       IN  /\ inserted > 0 => Cardinality(created) < MaxCreates
           /\ req' = [op |-> "create", payload |-> payload]
           /\ collection' = r.coll
           /\ nextId' = nextId + inserted
           /\ now' = IF inserted > 0 THEN now + dt ELSE now
           /\ resp' = IF r.res.ok
                      THEN Ok([status |-> Str(S_ok), id |-> Str(r.res.value)])
                      ELSE HTTPException(ServerError, r.res.msg)
           /\ created' = IF r.res.ok
                         THEN created \cup
                                  {[id |-> Str(r.res.value), intake |-> payload]}
                         ELSE created
    /\ UNCHANGED <<store, env, db, doc, out, pc, local>>

\* faulty variant: the fetch is not limited
ListOutcome_unlimited(s, coll) ==
    LET imp == ImportDatabase(s)
        docs == get_documents(s, coll, Len(coll))
    IN  IF ~imp.ok THEN imp
        ELSE IF ~docs.ok THEN docs
        ELSE LET items == SortDesc([i \in 1..Len(docs.value) |->
                                       _serialize_doc(docs.value[i])])
             IN  Return([items |-> items, count |-> Len(items)])

\* the body of list_bookings's try block
ListOutcome(s, coll) ==
    LET imp == ImportDatabase(s)
        docs == get_documents(s, coll, ListLimit)
    IN  IF ~imp.ok THEN imp
        ELSE IF ~docs.ok THEN docs
        ELSE LET items == SortDesc([i \in 1..Len(docs.value) |->
                                       _serialize_doc(docs.value[i])])
             IN  Return([items |-> items, count |-> Len(items)])

\* faulty variant: the handler catches store errors only, so a failing import escapes
list_bookings_import_escapes ==
    /\ LET imp == ImportDatabase(store)
           docs == get_documents(store, collection, ListLimit)
       IN  /\ req' = [op |-> "list"]
           /\ resp' = IF ~imp.ok
                      THEN [raised |-> imp.cls, status_code |-> ServerError,
                            body |-> <<>>]
                      ELSE IF ~docs.ok THEN HTTPException(ServerError, docs.msg)
                      ELSE LET items == SortDesc([i \in 1..Len(docs.value) |->
                                       _serialize_doc(docs.value[i])])
                           IN  Ok([items |-> items, count |-> Len(items)])
    /\ UNCHANGED <<collection, nextId, now, store, env, db, created,
                   doc, out, pc, local>>

list_bookings ==
    /\ LET r == ListOutcome(store, collection)
       IN  /\ req' = [op |-> "list"]
           /\ resp' = IF r.ok THEN Ok(r.value)
                      ELSE HTTPException(ServerError, r.msg)
    /\ UNCHANGED <<collection, nextId, now, store, env, db, created,
                   doc, out, pc, local>>

\* the database goes down, or comes back, between two requests
StoreOutage ==
    /\ store \in {"ok", "db_error"}
    /\ store' = IF store = "ok" THEN "db_error" ELSE "ok"
    /\ UNCHANGED <<collection, nextId, now, env, db, req, resp, created,
                   doc, out, pc, local>>

-----------------------------------------------------------------------------
(* Initial states: what the store may hold when the process starts *)

ClockSteps == {0, 500}

\* a record written without its creation timestamp
Untimed(d) == [k \in DOMAIN d \ {"created_at"} |-> d[k]]

Legacy ==
    <<StoredBooking(1, IntakeAmine, 1000),
      Untimed(StoredBooking(2, IntakeYasmine, 2000)),
      StoredBooking(3, IntakeYasmine, 2500)>>

\* one booking short of the listing limit
Stocked ==
    [i \in 1..(ListLimit - 1) |->
        IF i % 64 = 0 THEN Untimed(StoredBooking(i, IntakeYasmine, 1000 * i))
        ELSE StoredBooking(i, IntakeAmine, 1000 * i)]

InitialCollections == {<<>>, Legacy, Stocked}

NoSerialize == [pending |-> TRUE]

Idle ==
    /\ doc = NoSerialize
    /\ out = NoSerialize
    /\ pc = <<>>
    /\ local = <<>>

Init ==
    /\ collection \in InitialCollections
    /\ nextId = Len(collection) + 1
    /\ now = 1000 * Len(collection)
    /\ store \in StoreConditions
    /\ env = [DATABASE_URL |-> TRUE, DATABASE_NAME |-> TRUE]
    /\ db = [has_name |-> TRUE, ncollections |-> 1]
    /\ req = [op |-> "none"]
    /\ resp = NoResponse
    /\ created = {}
    /\ Idle

Next ==
    \/ \E payload \in Intakes, dt \in ClockSteps : create_booking(payload, dt)
    \/ list_bookings
    \/ StoreOutage

Spec == Init /\ [][Next]_vars

-----------------------------------------------------------------------------
(* Properties of the booking pipeline, under Spec *)

IsString(v) == v.t = "str"

\* the step just taken handled a request of kind op
Handled(op) == store' = store /\ req'.op = op

ListSucceeded == req.op = "list" /\ resp.status_code = 200

Has(x, k) == k \in DOMAIN x

\* items holds the booking c: its identifier and its intake values
Listed(c, items) ==
    \E i \in 1..Len(items) :
        /\ Has(items[i], "id")
        /\ items[i]["id"] = c.id
        /\ \A f \in IntakeFields : Has(items[i], f) /\ items[i][f] = c.intake[f]

C2_FailsWithValidationError ==
    [][(Handled("create") /\ ~BookingSchema(req'.payload).ok)
         => (resp'.raised = "ValidationError" /\ collection' = collection)
      ]_vars

\* C3: the items list_bookings returns are in descending order of created_at
\* (adjacent items that both have one), and every item without created_at
\* comes after every item with one.
C3_SortedByCreatedAtDesc ==
    ListSucceeded =>
        LET items == resp.body.items
            with == {i \in 1..Len(items) : Has(items[i], "created_at")}
            without == (1..Len(items)) \ with
        IN  /\ \A i \in with :
                   (i + 1) \in with =>
                       StrCmp(items[i]["created_at"].s,
                              items[i + 1]["created_at"].s, 1) >= 0
            /\ \A j \in without : \A i \in with : i < j

C3_Witness ==
    /\ ListSucceeded
    /\ LET items == resp.body.items
       IN  /\ Len(items) >= 3
           /\ ~Has(items[Len(items)], "created_at")
           /\ Has(items[1], "created_at") /\ Has(items[2], "created_at")
           /\ StrCmp(items[1]["created_at"].s, items[2]["created_at"].s, 1) > 0
           /\ items[1]["id"] # Str(str(collection[1]["_id"]))

Ids(coll) == {coll[i]["_id"] : i \in 1..Len(coll)}

\* C6: persisted bookings have pairwise distinct identifiers; a booking once
\* persisted stays in the collection with the identifier and values it had;
\* and the collection changes only by a successful create_booking, which adds
\* exactly one document.
C6_InsertOnly ==
    /\ [](Cardinality(Ids(collection)) = Len(collection))
    /\ [][/\ Len(collection') >= Len(collection)
          /\ SubSeq(collection', 1, Len(collection)) = collection
          /\ collection' # collection
                => (Handled("create") /\ resp'.status_code = 200)
          /\ (Handled("create") /\ resp'.status_code = 200)
                => Len(collection') = Len(collection) + 1
          /\ (Handled("list") \/ (Handled("create") /\ resp'.status_code # 200))
                => collection' = collection
         ]_vars

C6_Witness ==
    /\ Len(collection) = ListLimit + 1
    /\ Cardinality(created) = 2
    /\ req.op = "create" /\ resp.status_code = ServerError

\* some step of the handler's try block fails
CreateFails(s, payload) == s # "ok" \/ ~BookingSchema(payload).ok
ListFails(s) == s # "ok"

IsServerError(r) ==
    /\ r.raised = "HTTPException"
    /\ r.status_code = ServerError
    /\ DOMAIN r.body = {"detail"}
    /\ IsString(r.body.detail)

IsSuccess(r) == r.raised = "none" /\ r.status_code = 200

\* C7: a failure of any step of create_booking or list_bookings (import of the
\* store module, validation, insert, fetch) leaves the handler as an
\* HTTPException with status 500 and a string detail, and in no other form;
\* the handler returns a success only when no step failed.
C7_FailuresBecomeServerErrors ==
    [][/\ Handled("create") =>
             IF CreateFails(store, req'.payload)
             THEN IsServerError(resp') ELSE IsSuccess(resp')
       /\ Handled("list") =>
             IF ListFails(store) THEN IsServerError(resp') ELSE IsSuccess(resp')
      ]_vars

C7_Witness ==
    /\ store = "missing"
    /\ req.op = "list"
    /\ IsServerError(resp)
    /\ resp.body.detail = Str(MsgNoModule)

\* C9: a successful list_bookings returns one item per record fetched, none
\* dropped or duplicated; count is the number of items and at most ListLimit
\* (200); and while the collection holds at most ListLimit bookings every
\* persisted booking is among the items.
C9_OneItemPerRecord ==
    ListSucceeded =>
        LET items == resp.body.items
            fetched == Min(ListLimit, Len(collection))
        IN  /\ resp.body.count = Len(items)
            /\ resp.body.count <= ListLimit
            /\ Len(items) = fetched
            /\ \A i \in 1..Len(items) : Has(items[i], "id")
            /\ {items[i]["id"] : i \in 1..Len(items)}
                   = {Str(str(collection[i]["_id"])) : i \in 1..fetched}
            /\ Cardinality({items[i]["id"] : i \in 1..Len(items)}) = Len(items)
            /\ Len(collection) <= ListLimit =>
                   \A i \in 1..Len(collection) :
                       \E j \in 1..Len(items) :
                           items[j] = _serialize_doc(collection[i])

C9_Witness ==
    /\ ListSucceeded
    /\ Len(collection) > ListLimit
    /\ resp.body.count = ListLimit

-----------------------------------------------------------------------------
(* _serialize_doc on its own: the records the store can return *)

SomeIds == {1, 255, 4096 + 11}
SomeTimes == {0, 500, 59999, 61000, 3599001}

\* every subset of the optional parts: the identifier, the creation
\* timestamp and a second timestamp
Docs ==
    {booking @@ idPart @@ createdPart @@ updatedPart :
        booking \in {IntakeAmine, IntakeYasmine},
        idPart \in {<<>>} \cup {"_id" :> ObjectId(n) : n \in SomeIds},
        createdPart \in {<<>>} \cup {"created_at" :> Datetime(t) : t \in SomeTimes},
        updatedPart \in {<<>>, "updated_at" :> Datetime(1000)}}

InitSerialize ==
    /\ doc \in Docs
    /\ out = NoSerialize
    /\ collection = <<>>
    /\ nextId = 1
    /\ now = 0
    /\ store = "ok"
    /\ env = [DATABASE_URL |-> TRUE, DATABASE_NAME |-> TRUE]
    /\ db = [has_name |-> TRUE, ncollections |-> 1]
    /\ req = [op |-> "none"]
    /\ resp = NoResponse
    /\ created = {}
    /\ pc = <<>>
    /\ local = <<>>

Serialize(d) ==
    /\ doc' = d
    /\ out' = _serialize_doc(d)
    /\ UNCHANGED <<collection, nextId, now, store, env, db, req, resp,
                   created, pc, local>>

NextSerialize == \E d \in Docs : Serialize(d)

SpecSerialize == InitSerialize /\ [][NextSerialize]_vars

IsDigit(c) == 48 <= c /\ c <= 57
IsHex(c) == IsDigit(c) \/ (97 <= c /\ c <= 102)
HexVal(c) == IF IsDigit(c) THEN c - 48 ELSE c - 87
DigitVal(c) == c - 48

\* s is the 24-digit hexadecimal numeral of n
IsObjectIdString(s, n) ==
    /\ Len(s) = 24
    /\ \A i \in 1..24 : IsHex(s[i])
    /\ \A i \in 1..16 : s[i] = 48
    /\ HexVal(s[17]) * 268435456 + HexVal(s[18]) * 16777216
         + HexVal(s[19]) * 1048576 + HexVal(s[20]) * 65536
         + HexVal(s[21]) * 4096 + HexVal(s[22]) * 256
         + HexVal(s[23]) * 16 + HexVal(s[24]) = n

\* s has the shape YYYY-MM-DDTHH:MM:SS or YYYY-MM-DDTHH:MM:SS.ffffff
IsIso8601(s) ==
    /\ Len(s) \in {19, 26}
    /\ \A i \in {1, 2, 3, 4, 6, 7, 9, 10, 12, 13, 15, 16, 18, 19} : IsDigit(s[i])
    /\ s[5] = 45 /\ s[8] = 45 /\ s[11] = 84 /\ s[14] = 58 /\ s[17] = 58
    /\ DigitVal(s[15]) <= 5 /\ DigitVal(s[18]) <= 5
    /\ Len(s) = 26 => (s[20] = 46 /\ \A i \in 21..26 : IsDigit(s[i]))

\* the instant an ISO-8601 string of the clock's first hour denotes, in ms
ParseIso(s) ==
    (DigitVal(s[15]) * 10 + DigitVal(s[16])) * 60000
      + (DigitVal(s[18]) * 10 + DigitVal(s[19])) * 1000
      + (IF Len(s) = 26
         THEN DigitVal(s[21]) * 100 + DigitVal(s[22]) * 10 + DigitVal(s[23])
         ELSE 0)

\* C4: _serialize_doc is defined on every record the store can return; its
\* output has no `_id` but `id`, the identifier as a string; every timestamp
\* is an ISO-8601 string of the same instant; every other field is there
\* under its key with its value unchanged, and no field is added.
C4_SerializeRule ==
    ~Has(out, "pending") =>
        /\ ~Has(out, "_id")
        /\ Has(doc, "_id") =>
               /\ Has(out, "id")
               /\ IsString(out["id"])
               /\ IsObjectIdString(out["id"].s, doc["_id"].n)
        /\ DOMAIN out \ {"id"} = DOMAIN doc \ {"_id"}
        /\ Has(out, "id") => Has(doc, "_id")
        /\ \A k \in DOMAIN doc \ {"_id"} :
               IF doc[k].t = "datetime"
               THEN /\ IsString(out[k])
                    /\ IsIso8601(out[k].s)
                    /\ SubSeq(out[k].s, 1, 14) = S_dateHour
                    /\ ParseIso(out[k].s) = doc[k].ms
               ELSE out[k] = doc[k]

C4_Witness ==
    /\ ~Has(out, "pending")
    /\ Has(doc, "_id") /\ doc["_id"].n = 255
    /\ Has(doc, "created_at") /\ doc["created_at"].ms = 59999
    /\ Has(doc, "updated_at")
    /\ Len(out["created_at"].s) = 26
    /\ Len(out["updated_at"].s) = 19
    /\ out["email"] = Null

-----------------------------------------------------------------------------
(* The diagnostics endpoint *)

\* the status texts of test_database, without their leading symbol
S_Running == <<82, 117, 110, 110, 105, 110, 103>>
S_NotAvailable == <<78, 111, 116, 32, 65, 118, 97, 105, 108, 97, 98, 108, 101>>
S_NotConnected == <<78, 111, 116, 32, 67, 111, 110, 110, 101, 99, 116, 101, 100>>
S_Connected == <<67, 111, 110, 110, 101, 99, 116, 101, 100>>
S_Available == <<65, 118, 97, 105, 108, 97, 98, 108, 101>>
S_Set == <<83, 101, 116>>
S_NotSet == <<78, 111, 116, 32, 83, 101, 116>>
S_Working ==
    <<67, 111, 110, 110, 101, 99, 116, 101, 100, 32, 38, 32, 87, 111, 114, 107,
      105, 110, 103>>
S_ConnectedButError ==
    <<67, 111, 110, 110, 101, 99, 116, 101, 100, 32, 98, 117, 116, 32, 69, 114,
      114, 111, 114, 58, 32>>
S_NotInitialized ==
    <<65, 118, 97, 105, 108, 97, 98, 108, 101, 32, 98, 117, 116, 32, 110, 111,
      116, 32, 105, 110, 105, 116, 105, 97, 108, 105, 122, 101, 100>>
S_ModuleNotFound ==
    <<68, 97, 116, 97, 98, 97, 115, 101, 32, 109, 111, 100, 117, 108, 101, 32,
      110, 111, 116, 32, 102, 111, 117, 110, 100>>
S_Error == <<69, 114, 114, 111, 114, 58, 32>>

\* the literal name of the database: db.name
S_dbname == <<98, 97, 114, 98, 101, 114, 115, 104, 111, 112>>

\* s[:n]
Truncate(s, n) == SubSeq(s, 1, Min(n, Len(s)))

\* "Set" if os.getenv(name) else "Not Set"
Presence(isSet) == IF isSet THEN Str(S_Set) ELSE Str(S_NotSet)

\* the name of the i-th collection of the database
CollectionName(i) == Str(<<99>> \o TwoDigits(i))

\* db.list_collection_names()
list_collection_names(s, d) ==
    IF s = "db_error" THEN Raise("Exception", MsgListFailed)
    ELSE Return([i \in 1..d.ncollections |-> CollectionName(i)])

InitialResponse ==
    [backend |-> Str(S_Running),
     database |-> Str(S_NotAvailable),
     database_url |-> Null,
     database_name |-> Null,
     connection_status |-> Str(S_NotConnected),
     collections |-> <<>>]

\* the branch of test_database taken when db is not None
DiagConnected(r, s, e, d) ==
    LET r1 == [r EXCEPT
                  !.database = Str(S_Available),
                  !.database_url = Presence(e.DATABASE_URL),
                  !.database_name = IF d.has_name THEN Str(S_dbname)
                                    ELSE Str(S_Connected),
                  !.connection_status = Str(S_Connected)]
        names == list_collection_names(s, d)
    IN  IF names.ok
        THEN [r1 EXCEPT !.collections = Truncate(names.value, CollectionsShown),
                        !.database = Str(S_Working)]
        ELSE [r1 EXCEPT !.database =
                  Str(S_ConnectedButError \o Truncate(names.msg, ErrChars))]

\* faulty variant: the outer try catches ImportError only
DiagTry_import_error_only(r, s, e, d) ==
    LET imp == ImportDatabase(s)
    IN  IF ~imp.ok
        THEN IF imp.cls = "ImportError"
             THEN Return([r EXCEPT !.database = Str(S_ModuleNotFound)])
             ELSE imp
        ELSE IF s = "db_none"
             THEN Return([r EXCEPT !.database = Str(S_NotInitialized)])
             ELSE Return(DiagConnected(r, s, e, d))

\* the outer try statement of test_database: what it leaves in response, or
\* the exception that escapes it
DiagTry(r, s, e, d) ==
    LET imp == ImportDatabase(s)
    IN  IF ~imp.ok
        THEN IF imp.cls = "ImportError"
             THEN Return([r EXCEPT !.database = Str(S_ModuleNotFound)])
             ELSE Return([r EXCEPT !.database =
                             Str(S_Error \o Truncate(imp.msg, ErrChars))])
        ELSE IF s = "db_none"
             THEN Return([r EXCEPT !.database = Str(S_NotInitialized)])
             ELSE Return(DiagConnected(r, s, e, d))

\* faulty variant: the last assignment, which masks database_name, is left out
MaskEnv_url_only(r, e) == [r EXCEPT !.database_url = Presence(e.DATABASE_URL)]

\* the last two assignments of test_database
MaskEnv(r, e) ==
    [r EXCEPT !.database_url = Presence(e.DATABASE_URL),
              !.database_name = Presence(e.DATABASE_NAME)]

test_database ==
    /\ LET t == DiagTry(InitialResponse, store, env, db)
       IN  /\ req' = [op |-> "test"]
           /\ resp' = IF t.ok THEN Ok(MaskEnv(t.value, env))
                      ELSE [raised |-> t.cls, status_code |-> ServerError,
                            body |-> <<>>]
    /\ UNCHANGED <<collection, nextId, now, store, env, db, created, doc, out,
                   pc, local>>

InitDiag ==
    /\ store \in StoreConditions
    /\ env \in [DATABASE_URL : BOOLEAN, DATABASE_NAME : BOOLEAN]
    /\ db \in [has_name : BOOLEAN, ncollections : 0..MaxCollections]
    /\ collection = <<>>
    /\ nextId = 1
    /\ now = 0
    /\ req = [op |-> "none"]
    /\ resp = NoResponse
    /\ created = {}
    /\ Idle

NextDiag == test_database

SpecDiag == InitDiag /\ [][NextDiag]_vars

Tested == req.op = "test"

DiagKeys ==
    {"backend", "database", "database_url", "database_name",
     "connection_status", "collections"}

\* the text test_database reports for each condition of the store
ExpectedStatus(s) ==
    IF s = "missing" THEN S_ModuleNotFound
    ELSE IF s = "import_error" THEN S_Error \o Truncate(MsgConnectionRefused, ErrChars)
    ELSE IF s = "db_none" THEN S_NotInitialized
    ELSE IF s = "db_error" THEN S_ConnectedButError \o Truncate(MsgListFailed, ErrChars)
    ELSE S_Working

\* C5: test_database never raises and always returns an object with the six
\* keys, whatever the condition of the store: module missing, import failing
\* with another error, db None, db present but list_collection_names
\* failing; each failure is reported as a status string in `database`.
C5_DiagnosticsNeverRaises ==
    Tested =>
        /\ IsSuccess(resp)
        /\ DOMAIN resp.body = DiagKeys
        /\ IsString(resp.body.database)
        /\ resp.body.database.s = ExpectedStatus(store)
        /\ store # "ok" => resp.body.database.s # S_Working
        /\ resp.body.backend = Str(S_Running)

C5_Witness ==
    /\ Tested
    /\ store = "db_error"
    /\ IsSuccess(resp)
    /\ Len(resp.body.database.s) = Len(S_ConnectedButError) + ErrChars
    /\ resp.body.connection_status = Str(S_Connected)

\* C8: in every response of test_database, database_name is a presence mask
\* (set / not set) and never the literal name of the database, also when a
\* live handle exposes its name; `collections` holds at most 10 names, and is
\* not empty only when the query of the live connection succeeded.
C8_NameMaskedCollectionsCapped ==
    Tested =>
        /\ resp.body.database_name \in {Str(S_Set), Str(S_NotSet)}
        /\ resp.body.database_name = Presence(env.DATABASE_NAME)
        /\ resp.body.database_name # Str(S_dbname)
        /\ Len(resp.body.collections) <= CollectionsShown
        /\ resp.body.collections # <<>> => store = "ok"
        /\ store = "ok" =>
               resp.body.collections =
                   [i \in 1..Min(CollectionsShown, db.ncollections) |->
                       CollectionName(i)]

C8_Witness ==
    /\ Tested
    /\ store = "ok"
    /\ db.has_name
    /\ db.ncollections > CollectionsShown
    /\ Len(resp.body.collections) = CollectionsShown
    /\ resp.body.database_name = Str(S_NotSet)

-----------------------------------------------------------------------------
(* Concurrent requests: the hosting runtime runs each handler in its own     *)
(* thread, so the handlers interleave between their calls to the store.      *)
(* Each call to the store adapter is one atomic step.                        *)

Requests == 1..NumRequests

NoLocal ==
    [kind |-> "none", payload |-> Null, booking |-> Null, docs |-> <<>>,
     seen |-> {}, resp |-> NoResponse]

\* the requests whose insert has completed
Inserted == {q \in Requests : pc[q] = "done" /\ local[q].kind = "create"
                                /\ local[q].resp.status_code = 200}

\* faulty variant: the handler reads the payload of the request the application
\* received last, a variable shared by all requests
InsertArgument_last_request(r) ==
    IF req.op = "create" /\ BookingSchema(req.payload).ok THEN req.payload
    ELSE local[r].booking

\* the argument create_booking passes to create_document: its own local
\* variable `booking`
InsertArgument(r) == local[r].booking

\* create_booking up to the validation: the imports and BookingSchema(...)
create_validate(r, payload) ==
    /\ pc[r] = "idle"
    /\ LET imp == ImportDatabase(store)
           booking == BookingSchema(payload)
           failure == IF ~imp.ok THEN imp ELSE booking
       IN  /\ req' = [op |-> "create", payload |-> payload]
           /\ IF imp.ok /\ booking.ok
              THEN /\ pc' = [pc EXCEPT ![r] = "validated"]
                   /\ local' = [local EXCEPT ![r] =
                          [@ EXCEPT !.kind = "create", !.payload = payload,
                                    !.booking = booking.value]]
              ELSE /\ pc' = [pc EXCEPT ![r] = "done"]
                   /\ local' = [local EXCEPT ![r] =
                          [@ EXCEPT !.kind = "create", !.payload = payload,
                                    !.resp = HTTPException(ServerError, failure.msg)]]
    /\ UNCHANGED <<collection, nextId, now, store, env, db, resp, created, doc, out>>

\* create_booking from the call of create_document to its return
create_insert(r) ==
    /\ pc[r] = "validated"
    /\ LET ins == create_document(store, collection, nextId, InsertArgument(r),
                                  now + 500)
           inserted == Len(ins.coll) - Len(collection)
       IN  /\ collection' = ins.coll
           /\ nextId' = nextId + inserted
           /\ now' = IF inserted > 0 THEN now + 500 ELSE now
           /\ pc' = [pc EXCEPT ![r] = "done"]
           /\ local' = [local EXCEPT ![r].resp =
                  IF ins.res.ok
                  THEN Ok([status |-> Str(S_ok), id |-> Str(ins.res.value)])
                  ELSE HTTPException(ServerError, ins.res.msg)]
    /\ UNCHANGED <<store, env, db, req, resp, created, doc, out>>

\* list_bookings up to the return of get_documents
list_fetch(r) ==
    /\ pc[r] = "idle"
    /\ LET imp == ImportDatabase(store)
           docs == get_documents(store, collection, ListLimit)
           failure == IF ~imp.ok THEN imp ELSE docs
       IN  /\ req' = [op |-> "list"]
           /\ IF imp.ok /\ docs.ok
              THEN /\ pc' = [pc EXCEPT ![r] = "fetched"]
                   /\ local' = [local EXCEPT ![r] =
                          [@ EXCEPT !.kind = "list", !.docs = docs.value,
                                    !.seen = Inserted]]
              ELSE /\ pc' = [pc EXCEPT ![r] = "done"]
                   /\ local' = [local EXCEPT ![r] =
                          [@ EXCEPT !.kind = "list",
                                    !.resp = HTTPException(ServerError, failure.msg)]]
    /\ UNCHANGED <<collection, nextId, now, store, env, db, resp, created, doc, out>>

\* list_bookings from the serialization to its return
list_return(r) ==
    /\ pc[r] = "fetched"
    /\ LET docs == local[r].docs
           items == SortDesc([i \in 1..Len(docs) |-> _serialize_doc(docs[i])])
       IN  /\ pc' = [pc EXCEPT ![r] = "done"]
           /\ local' = [local EXCEPT ![r].resp =
                  Ok([items |-> items, count |-> Len(items)])]
    /\ UNCHANGED <<collection, nextId, now, store, env, db, req, resp, created,
                   doc, out>>

ConcOutage ==
    /\ store \in {"ok", "db_error"}
    /\ \E r \in Requests : pc[r] # "done"
    /\ store' = IF store = "ok" THEN "db_error" ELSE "ok"
    /\ UNCHANGED <<collection, nextId, now, env, db, req, resp, created, doc,
                   out, pc, local>>

InitConc ==
    /\ collection = <<>>
    /\ nextId = 1
    /\ now = 0
    /\ store = "ok"
    /\ env = [DATABASE_URL |-> TRUE, DATABASE_NAME |-> TRUE]
    /\ db = [has_name |-> TRUE, ncollections |-> 1]
    /\ req = [op |-> "none"]
    /\ resp = NoResponse
    /\ created = {}
    /\ doc = NoSerialize
    /\ out = NoSerialize
    /\ pc = [r \in Requests |-> "idle"]
    /\ local = [r \in Requests |-> NoLocal]

ConcIntakes == {IntakeAmine, IntakeYasmine, IntakeNoName}

NextConc ==
    \/ \E r \in Requests, payload \in ConcIntakes : create_validate(r, payload)
    \/ \E r \in Requests : create_insert(r)
    \/ \E r \in Requests : list_fetch(r)
    \/ \E r \in Requests : list_return(r)
    \/ ConcOutage

SpecConc == InitConc /\ [][NextConc]_vars

\* the documents of coll that carry the identifier a create returned
DocsOf(coll, r) ==
    {i \in 1..Len(coll) : Str(str(coll[i]["_id"])) = local[r].resp.body.id}

FullyFormed(item) ==
    /\ DOMAIN item = IntakeFields \cup {"id", "created_at"}
    /\ IsString(item["id"]) /\ IsString(item["created_at"])

\* C10: under every interleaving of create_booking and list_bookings
\* requests, the collection holds exactly one record per successful create,
\* with the values that create submitted (no insert is lost, doubled or
\* overwritten by another request); and a list returns exactly the records
\* whose insert had completed when it fetched, each fully formed.
C10_IndependentRequests ==
    /\ Len(collection) = Cardinality(Inserted)
    /\ \A r \in Inserted :
           /\ Cardinality(DocsOf(collection, r)) = 1
           /\ \A i \in DocsOf(collection, r) :
                  \A f \in IntakeFields : collection[i][f] = local[r].payload[f]
    /\ \A r \in Requests :
           (pc[r] = "done" /\ local[r].kind = "list"
              /\ local[r].resp.status_code = 200) =>
               LET items == local[r].resp.body.items
               IN  /\ {items[i]["id"] : i \in 1..Len(items)}
                        = {local[q].resp.body.id : q \in local[r].seen}
                   /\ Len(items) = Cardinality(local[r].seen)
                   /\ \A i \in 1..Len(items) :
                          /\ FullyFormed(items[i])
                          /\ \E j \in 1..Len(collection) :
                                 items[i] = _serialize_doc(collection[j])

\* a list that fetched between two inserts, and returned after the second
C10_Witness ==
    \E r, q1, q2 \in Requests :
        /\ pc[r] = "done" /\ local[r].kind = "list"
        /\ local[r].resp.status_code = 200
        /\ local[r].seen = {q1}
        /\ q2 \in Inserted /\ q2 # q1
        /\ local[q1].payload # local[q2].payload
        /\ Len(collection) = 2
        /\ local[r].resp.body.count = 1

====
